---- MODULE Spec2Model ----
(***************************************************************************)
(* A model of the Ion 1.1 macro table (src/lazy/expanded/macro_table.rs):  *)
(* the Macro / MacroRef / MacroTable types, the hand-compiled system macro *)
(* table, the lookups and the two mutating operations add_macro and        *)
(* append_all_macros_from; of the binary 1.1 opcode table                  *)
(* (src/lazy/binary/raw/v1_1/type_descriptor.rs); and of the construction  *)
(* of the raw text 1.1 writer (src/lazy/encoder/text/v1_1/writer.rs).      *)
(*                                                                         *)
(* Conventions.  Option<T> is a sequence of length <= 1 (None = <<>>,      *)
(* Some(x) = <<x>>).  A Vec is a TLA+ sequence, so the element a Rust      *)
(* program finds at index a is element a + 1 here.  An Rc<Macro> is a      *)
(* record [rc, macro]: rc is the identity of the allocation, macro its     *)
(* contents.  A range a..b is the record [start |-> a, end |-> b].         *)
(***************************************************************************)
EXTENDS Integers, Sequences, FiniteSets, TLC

VARIABLES tables, nextRc, last, output, writer, written, jump_table, index,
          ION_1_1_OPCODES, decoded, panic

\* The state of the macro tables, of a text writer and its output, and of
\* the opcode table while it is filled.
tableVars == <<tables, nextRc, last>>
writerVars == <<output, writer, written>>
opcodeVars == <<jump_table, index, ION_1_1_OPCODES, decoded, panic>>

vars ==
    <<tables, nextRc, last, output, writer, written, jump_table, index,
      ION_1_1_OPCODES, decoded, panic>>

(* ------------------------------ bounds -------------------------------- *)

\* The number of successful add_macro calls (each allocates one Rc<Macro>).
MaxAdds == 2
\* The number of entries a table may hold besides the system macros.
MaxUser == 2

(* ------------------------------ Option -------------------------------- *)

None == <<>>
Some(x) == <<x>>
IsSome(o) == o # <<>>
IsNone(o) == o = <<>>
Unwrap(o) == o[1]

(* ------------------------------ IonResult ----------------------------- *)

Ok(v) == [tag |-> "Ok", value |-> <<v>>, error |-> <<>>]
Err(e) == [tag |-> "Err", value |-> <<>>, error |-> <<e>>]
IsOk(r) == r.tag = "Ok"
IsErr(r) == r.tag = "Err"

\* IonResult::decoding_error(format!("macro named '{name}' already exists"))
DuplicateNameError(name) ==
    Err([kind |-> "Decoding",
         description |-> "macro named '" \o name \o "' already exists"])

\* The unit value () of Ok(()).
Unit == "()"

(* --------------------- signatures and template bodies ----------------- *)

Parameter(name, encoding, cardinality, rest_syntax) ==
    [name |-> name, encoding |-> encoding, cardinality |-> cardinality,
     rest_syntax |-> rest_syntax]

ExprRange(s, e) == [start |-> s, end |-> e]

\* TemplateBodyExpr::element(TemplateBodyElement::with_value(value), range)
ElementExpr(value, text, range) ==
    [kind |-> "Element", value |-> value, text |-> text,
     annotations_range |-> None, parameter_index |-> None, range |-> range]

\* ... .with_annotations(range)
WithAnnotations(expr, annotations) ==
    [expr EXCEPT !.annotations_range = Some(annotations)]

\* TemplateBodyExpr::variable(parameter_index, range)
VariableExpr(parameter_index, range) ==
    [kind |-> "Variable", value |-> "", text |-> "",
     annotations_range |-> None, parameter_index |-> Some(parameter_index),
     range |-> range]

TemplateBody(expressions, annotations_storage) ==
    [expressions |-> expressions, annotations_storage |-> annotations_storage]

ExpansionAnalysis(system, exactlyOne, lazy, singleton) ==
    [could_produce_system_value |-> system,
     must_produce_exactly_one_value |-> exactlyOne,
     can_be_lazily_evaluated_at_top_level |-> lazy,
     expansion_singleton |-> singleton]

ExpansionSingleton(is_null, ion_type, num_annotations) ==
    [is_null |-> is_null, ion_type |-> ion_type,
     num_annotations |-> num_annotations]

\* ExpansionAnalysis::default() (crate::lazy::expanded::compiler): the
\* analysis that asserts nothing about the expansion.
ExpansionAnalysisDefault ==
    ExpansionAnalysis(TRUE, FALSE, FALSE, None)

(* ------------------------------- Macro -------------------------------- *)

\* MacroKind: the primitive kinds carry no state, Template carries its body.
PrimitiveKind(tag) == [tag |-> tag, body |-> None]
TemplateKind(body) == [tag |-> "Template", body |-> Some(body)]

SYSTEM_MACRO_KINDS ==
    << PrimitiveKind("None"), PrimitiveKind("ExprGroup"),
       PrimitiveKind("MakeString"), PrimitiveKind("MakeSExp"),
       PrimitiveKind("Annotate") >>

MacroNew(name, signature, kind, expansion_analysis) ==
    [name |-> name, signature |-> signature, kind |-> kind,
     expansion_analysis |-> expansion_analysis]

MacroNamed(name, signature, kind, expansion_analysis) ==
    MacroNew(Some(name), signature, kind, expansion_analysis)

MacroAnonymous(signature, kind, expansion_analysis) ==
    MacroNew(None, signature, kind, expansion_analysis)

TemplateMacro(name, signature, body, expansion_analysis) ==
    [name |-> name, signature |-> signature, body |-> body,
     expansion_analysis |-> expansion_analysis]

MacroFromTemplateMacro(template_macro) ==
    MacroNew(template_macro.name, template_macro.signature,
             TemplateKind(template_macro.body),
             template_macro.expansion_analysis)

\* Rc::new(m) at allocation rc, and Rc::clone, which copies the pointer.
RcNew(rc, m) == [rc |-> rc, macro |-> m]
\* A variant of Rc::clone that copies the macro into an allocation of its
\* own (Rc::new of a clone of the Macro) instead of sharing it.
RcNewOfClone(r) == [rc |-> r.rc + 100, macro |-> r.macro]
RcClone(r) == r

\* What a call yields: the value it returns, or the message it panics
\* with.
Returns(value) == [panic |-> None, value |-> Some(value)]
Panics(message) == [panic |-> Some(message), value |-> None]

\* MacroRef { address, reference }
MacroRef(address, reference) == [address |-> address, reference |-> reference]

\* #[derive(PartialEq)] on MacroRef: the addresses and the referenced
\* macros' contents are compared, not the allocations.
\* TemplateMacroRef::new(reference, body)
TemplateMacroRef(reference, body) == [reference |-> reference, body |-> body]

\* MacroRef::require_template(self): the template of a Template macro; for
\* any other kind the unreachable!() is reached.
require_template(self) ==
    IF self.reference.macro.kind.tag = "Template"
    THEN Returns(TemplateMacroRef(self.reference,
                                  Unwrap(self.reference.macro.kind.body)))
    ELSE Panics(<< "caller required a template macro but found {:?}",
                   self.reference.macro.kind.tag >>)

MacroRefEq(x, y) ==
    x.address = y.address /\ x.reference.macro = y.reference.macro

(* --------------------------- system macros ---------------------------- *)

NUM_SYSTEM_MACROS == 9
FIRST_USER_MACRO_ID == NUM_SYSTEM_MACROS

\* The one-parameter signature shared by most system macros:
\* (name, Tagged, ZeroOrMore, rest syntax allowed).
RestSignature(name) ==
    << Parameter(name, "Tagged", "ZeroOrMore", "Allowed") >>

SExpElement(range) == ElementExpr("SExp", "", range)
ListElement(range) == ElementExpr("List", "", range)
SymbolElement(text, range) == ElementExpr("Symbol", text, range)

\* The analysis of the four encoding-directive templates.
DirectiveAnalysis ==
    ExpansionAnalysis(TRUE, TRUE, FALSE,
                      Some(ExpansionSingleton(FALSE, "SExp", 1)))

NoneMacro ==
    MacroNamed("none", << >>, PrimitiveKind("None"),
               ExpansionAnalysis(FALSE, FALSE, FALSE, None))

ValuesMacro ==
    MacroFromTemplateMacro(TemplateMacro(
        Some("values"),
        RestSignature("expr_group"),
        TemplateBody(<< VariableExpr(0, ExprRange(0, 1)) >>, << >>),
        ExpansionAnalysisDefault))

\* make_string with the expansion analysis of make_sexp, its neighbour in
\* the vec!.
MakeStringMacroCopiedAnalysis ==
    MacroNamed("make_string", RestSignature("text_values"),
               PrimitiveKind("MakeString"),
               ExpansionAnalysis(FALSE, TRUE, TRUE,
                   Some(ExpansionSingleton(FALSE, "SExp", 0))))

MakeStringMacro ==
    MacroNamed("make_string", RestSignature("text_values"),
               PrimitiveKind("MakeString"),
               ExpansionAnalysis(FALSE, TRUE, TRUE,
                   Some(ExpansionSingleton(FALSE, "String", 0))))

MakeSExpMacro ==
    MacroNamed("make_sexp", RestSignature("sequences"),
               PrimitiveKind("MakeSExp"),
               ExpansionAnalysis(FALSE, TRUE, TRUE,
                   Some(ExpansionSingleton(FALSE, "SExp", 0))))

\* annotate marked as lazily evaluable at the top level although it could
\* produce a system value.
AnnotateMacroLazy ==
    MacroNamed("annotate",
               << Parameter("annotations", "Tagged", "ZeroOrMore", "NotAllowed"),
                  Parameter("value_to_annotate", "Tagged", "ExactlyOne",
                            "NotAllowed") >>,
               PrimitiveKind("Annotate"),
               ExpansionAnalysis(TRUE, TRUE, TRUE, None))

AnnotateMacro ==
    MacroNamed("annotate",
               << Parameter("annotations", "Tagged", "ZeroOrMore", "NotAllowed"),
                  Parameter("value_to_annotate", "Tagged", "ExactlyOne",
                            "NotAllowed") >>,
               PrimitiveKind("Annotate"),
               ExpansionAnalysis(TRUE, TRUE, FALSE, None))

\* set_symbols with the ranges its comments give ("0 (itself) through 7
\* (exclusive)") instead of the ranges of the code.
SetSymbolsMacroAsCommented ==
    MacroFromTemplateMacro(TemplateMacro(
        Some("set_symbols"),
        RestSignature("symbols"),
        TemplateBody(
            << WithAnnotations(SExpElement(ExprRange(0, 7)), ExprRange(0, 1)),
               SExpElement(ExprRange(1, 5)),
               SymbolElement("symbol_table", ExprRange(2, 3)),
               ListElement(ExprRange(3, 5)),
               VariableExpr(0, ExprRange(4, 5)),
               SExpElement(ExprRange(5, 8)),
               SymbolElement("macro_table", ExprRange(6, 7)),
               SymbolElement("$ion_encoding", ExprRange(7, 8)) >>,
            << "$ion_encoding" >>),
        DirectiveAnalysis))

SetSymbolsMacro ==
    MacroFromTemplateMacro(TemplateMacro(
        Some("set_symbols"),
        RestSignature("symbols"),
        TemplateBody(
            << WithAnnotations(SExpElement(ExprRange(0, 8)), ExprRange(0, 1)),
               SExpElement(ExprRange(1, 5)),
               SymbolElement("symbol_table", ExprRange(2, 3)),
               ListElement(ExprRange(3, 5)),
               VariableExpr(0, ExprRange(4, 5)),
               SExpElement(ExprRange(5, 8)),
               SymbolElement("macro_table", ExprRange(6, 7)),
               SymbolElement("$ion_encoding", ExprRange(7, 8)) >>,
            << "$ion_encoding" >>),
        DirectiveAnalysis))

AddSymbolsMacro ==
    MacroFromTemplateMacro(TemplateMacro(
        Some("add_symbols"),
        RestSignature("symbols"),
        TemplateBody(
            << WithAnnotations(SExpElement(ExprRange(0, 9)), ExprRange(0, 1)),
               SExpElement(ExprRange(1, 6)),
               SymbolElement("symbol_table", ExprRange(2, 3)),
               SymbolElement("$ion_encoding", ExprRange(3, 4)),
               ListElement(ExprRange(4, 6)),
               VariableExpr(0, ExprRange(5, 6)),
               SExpElement(ExprRange(6, 9)),
               SymbolElement("macro_table", ExprRange(7, 8)),
               SymbolElement("$ion_encoding", ExprRange(8, 9)) >>,
            << "$ion_encoding" >>),
        DirectiveAnalysis))

\* set_macros with its variable numbered from 1: a parameter index that the
\* one-parameter signature does not have.
SetMacrosMacroOneBasedVariable ==
    MacroFromTemplateMacro(TemplateMacro(
        Some("set_macros"),
        RestSignature("macro_definitions"),
        TemplateBody(
            << WithAnnotations(SExpElement(ExprRange(0, 7)), ExprRange(0, 1)),
               SExpElement(ExprRange(1, 4)),
               SymbolElement("symbol_table", ExprRange(2, 3)),
               SymbolElement("$ion_encoding", ExprRange(3, 4)),
               SExpElement(ExprRange(4, 7)),
               SymbolElement("macro_table", ExprRange(5, 6)),
               VariableExpr(1, ExprRange(6, 7)) >>,
            << "$ion_encoding" >>),
        DirectiveAnalysis))

SetMacrosMacro ==
    MacroFromTemplateMacro(TemplateMacro(
        Some("set_macros"),
        RestSignature("macro_definitions"),
        TemplateBody(
            << WithAnnotations(SExpElement(ExprRange(0, 7)), ExprRange(0, 1)),
               SExpElement(ExprRange(1, 4)),
               SymbolElement("symbol_table", ExprRange(2, 3)),
               SymbolElement("$ion_encoding", ExprRange(3, 4)),
               SExpElement(ExprRange(4, 7)),
               SymbolElement("macro_table", ExprRange(5, 6)),
               VariableExpr(0, ExprRange(6, 7)) >>,
            << "$ion_encoding" >>),
        DirectiveAnalysis))

\* add_macros without the .with_annotations(0..1) of its first expression.
AddMacrosMacroUnannotated ==
    MacroFromTemplateMacro(TemplateMacro(
        Some("add_macros"),
        RestSignature("macro_definitions"),
        TemplateBody(
            << SExpElement(ExprRange(0, 8)),
               SExpElement(ExprRange(1, 4)),
               SymbolElement("symbol_table", ExprRange(2, 3)),
               SymbolElement("$ion_encoding", ExprRange(3, 4)),
               SExpElement(ExprRange(4, 8)),
               SymbolElement("macro_table", ExprRange(5, 6)),
               SymbolElement("$ion_encoding", ExprRange(6, 7)),
               VariableExpr(0, ExprRange(7, 8)) >>,
            << "$ion_encoding" >>),
        DirectiveAnalysis))

AddMacrosMacro ==
    MacroFromTemplateMacro(TemplateMacro(
        Some("add_macros"),
        RestSignature("macro_definitions"),
        TemplateBody(
            << WithAnnotations(SExpElement(ExprRange(0, 8)), ExprRange(0, 1)),
               SExpElement(ExprRange(1, 4)),
               SymbolElement("symbol_table", ExprRange(2, 3)),
               SymbolElement("$ion_encoding", ExprRange(3, 4)),
               SExpElement(ExprRange(4, 8)),
               SymbolElement("macro_table", ExprRange(5, 6)),
               SymbolElement("$ion_encoding", ExprRange(6, 7)),
               VariableExpr(0, ExprRange(7, 8)) >>,
            << "$ion_encoding" >>),
        DirectiveAnalysis))

\* compile_system_macros(): the vec![Rc::new(..), ..] in source order; the
\* i-th Rc is allocation i.
\* A variant of the vec! with an entry for every one of SYSTEM_MACRO_KINDS
\* (an expression-group macro after `none`), FIRST_USER_MACRO_ID not updated.
SystemMacroDefinitionsWithExprGroup ==
    << NoneMacro,
       MacroNamed("expr_group", RestSignature("expr_group"),
                  PrimitiveKind("ExprGroup"),
                  ExpansionAnalysis(FALSE, FALSE, FALSE, None)),
       ValuesMacro, MakeStringMacro, MakeSExpMacro, AnnotateMacro,
       SetSymbolsMacro, AddSymbolsMacro, SetMacrosMacro, AddMacrosMacro >>

\* A variant of the vec! with make_sexp ahead of make_string.
SystemMacroDefinitionsReordered ==
    << NoneMacro, ValuesMacro, MakeSExpMacro, MakeStringMacro, AnnotateMacro,
       SetSymbolsMacro, AddSymbolsMacro, SetMacrosMacro, AddMacrosMacro >>

SystemMacroDefinitions ==
    << NoneMacro, ValuesMacro, MakeStringMacro, MakeSExpMacro, AnnotateMacro,
       SetSymbolsMacro, AddSymbolsMacro, SetMacrosMacro, AddMacrosMacro >>

compile_system_macros ==
    [i \in 1..Len(SystemMacroDefinitions) |->
        RcNew(i, SystemMacroDefinitions[i])]

(* ----------------------------- MacroTable ----------------------------- *)

\* FxHashMap<Rc<str>, usize>: a function whose domain is the set of keys.
EmptyMap == [k \in {} |-> 0]
ContainsKey(map, key) == key \in DOMAIN map
\* HashMap::insert: adds the key, or replaces the value of a present key.
MapInsert(map, key, value) ==
    [k \in (DOMAIN map) \cup {key} |-> IF k = key THEN value ELSE map[k]]
\* HashMap::get(key).copied()
MapGet(map, key) == IF key \in DOMAIN map THEN Some(map[key]) ELSE None

\* Vec::get(i) for a usize i.
VecGet(vec, i) == IF i < Len(vec) THEN Some(vec[i + 1]) ELSE None

MacroTable(macros_by_address, macros_by_name) ==
    [macros_by_address |-> macros_by_address,
     macros_by_name |-> macros_by_name]

\* The loop of construct_system_macro_table: enumerate() from id on.
RECURSIVE IndexByName(_, _, _)
IndexByName(macros_by_id, id, macros_by_name) ==
    IF id >= Len(macros_by_id) THEN macros_by_name
    ELSE LET mac == macros_by_id[id + 1].macro
         IN  IndexByName(macros_by_id, id + 1,
                 IF IsSome(mac.name)
                 THEN MapInsert(macros_by_name, Unwrap(mac.name), id)
                 ELSE macros_by_name)

construct_system_macro_table ==
    LET macros_by_id == compile_system_macros
    IN  MacroTable(macros_by_id, IndexByName(macros_by_id, 0, EmptyMap))

\* thread_local! ION_1_1_SYSTEM_MACROS
ION_1_1_SYSTEM_MACROS == construct_system_macro_table

\* #[derive(Clone)]: the Vec of Rc and the map are copied, the macros shared.
TableClone(self) ==
    MacroTable([i \in 1..Len(self.macros_by_address) |->
                    RcClone(self.macros_by_address[i])],
               self.macros_by_name)

\* LocalKey::with on the thread-local: the slot holds no table until its
\* first access, which instantiates it.
LocalKeyWith(slot) ==
    IF IsNone(slot) THEN Some(ION_1_1_SYSTEM_MACROS) ELSE slot

\* with_system_macros() on a thread whose slot is slot, and on a thread that
\* never accessed it.
with_system_macros_on(slot) == TableClone(Unwrap(LocalKeyWith(slot)))
with_system_macros == with_system_macros_on(None)

empty == MacroTable(<< >>, EmptyMap)

len(self) == Len(self.macros_by_address)

is_empty(self) == len(self) = 0

\* A variant that indexes the Vec from one.
macro_at_address_one_based(self, address) ==
    LET reference == VecGet(self.macros_by_address, address + 1)
    IN  IF IsNone(reference) THEN None
        ELSE Some(MacroRef(address, Unwrap(reference)))

macro_at_address(self, address) ==
    LET reference == VecGet(self.macros_by_address, address)
    IN  IF IsNone(reference) THEN None
        ELSE Some(MacroRef(address, Unwrap(reference)))

address_for_name(self, name) == MapGet(self.macros_by_name, name)

macro_with_name(self, name) ==
    LET address == MapGet(self.macros_by_name, name)
    IN  IF IsNone(address) THEN None
        ELSE LET reference == VecGet(self.macros_by_address, Unwrap(address))
             IN  IF IsNone(reference) THEN None
                 ELSE Some(MacroRef(Unwrap(address), Unwrap(reference)))

\* MacroIdRef::LocalName(name) | MacroIdRef::LocalAddress(address)
LocalName(name) == [tag |-> "LocalName", name |-> Some(name), address |-> None]
LocalAddress(address) ==
    [tag |-> "LocalAddress", name |-> None, address |-> Some(address)]

macro_with_id(self, id) ==
    IF id.tag = "LocalName" THEN macro_with_name(self, Unwrap(id.name))
    ELSE macro_at_address(self, Unwrap(id.address))

\* A variant in which a template of a known name redefines that macro in
\* place instead of being rejected.
add_macro_redefine(self, template, rc) ==
    LET id == Len(self.macros_by_address)
        new_macro == RcNew(rc, MacroNew(template.name, template.signature,
                                        TemplateKind(template.body),
                                        template.expansion_analysis))
    IN  IF IsSome(template.name)
           /\ ContainsKey(self.macros_by_name, Unwrap(template.name))
        THEN LET old == self.macros_by_name[Unwrap(template.name)]
             IN  [table |-> MacroTable(
                      [self.macros_by_address EXCEPT ![old + 1] = new_macro],
                      self.macros_by_name),
                  result |-> Ok(old)]
        ELSE [table |-> MacroTable(
                  Append(self.macros_by_address, new_macro),
                  IF IsSome(template.name)
                  THEN MapInsert(self.macros_by_name, Unwrap(template.name), id)
                  ELSE self.macros_by_name),
              result |-> Ok(id)]

\* A variant that reads the id after the push.
add_macro_returns_len(self, template, rc) ==
    LET new_macro == RcNew(rc, MacroNew(template.name, template.signature,
                                        TemplateKind(template.body),
                                        template.expansion_analysis))
        pushed == Append(self.macros_by_address, new_macro)
        id == Len(pushed)
    IN  IF IsSome(template.name)
           /\ ContainsKey(self.macros_by_name, Unwrap(template.name))
        THEN [table |-> self,
              result |-> DuplicateNameError(Unwrap(template.name))]
        ELSE [table |-> MacroTable(pushed,
                  IF IsSome(template.name)
                  THEN MapInsert(self.macros_by_name, Unwrap(template.name),
                                 id - 1)
                  ELSE self.macros_by_name),
              result |-> Ok(id)]

\* A variant that inserts the name first and looks at what insert() found.
add_macro_insert_before_check(self, template, rc) ==
    LET id == Len(self.macros_by_address)
        names == IF IsSome(template.name)
                 THEN MapInsert(self.macros_by_name, Unwrap(template.name), id)
                 ELSE self.macros_by_name
        new_macro == RcNew(rc, MacroNew(template.name, template.signature,
                                        TemplateKind(template.body),
                                        template.expansion_analysis))
    IN  IF IsSome(template.name)
           /\ ContainsKey(self.macros_by_name, Unwrap(template.name))
        THEN [table |-> MacroTable(self.macros_by_address, names),
              result |-> DuplicateNameError(Unwrap(template.name))]
        ELSE [table |-> MacroTable(Append(self.macros_by_address, new_macro),
                                   names),
              result |-> Ok(id)]

\* A variant that enters an anonymous macro into the index under "".
add_macro_indexes_anonymous(self, template, rc) ==
    LET id == Len(self.macros_by_address)
        key == IF IsSome(template.name) THEN Unwrap(template.name) ELSE ""
        new_macro == RcNew(rc, MacroNew(template.name, template.signature,
                                        TemplateKind(template.body),
                                        template.expansion_analysis))
    IN  IF ContainsKey(self.macros_by_name, key)
        THEN [table |-> self, result |-> DuplicateNameError(key)]
        ELSE [table |-> MacroTable(Append(self.macros_by_address, new_macro),
                                   MapInsert(self.macros_by_name, key, id)),
              result |-> Ok(id)]

\* add_macro: the pair of the table afterwards and the returned IonResult.
\* rc is the allocation Rc::new returns.
\* A variant that builds the new macro with the kind ExprGroup and drops
\* the body of the template.
add_macro_as_expr_group(self, template, rc) ==
    LET id == Len(self.macros_by_address)
        collides == IsSome(template.name)
                    /\ ContainsKey(self.macros_by_name, Unwrap(template.name))
        names == IF IsSome(template.name)
                 THEN MapInsert(self.macros_by_name, Unwrap(template.name), id)
                 ELSE self.macros_by_name
        new_macro == MacroNew(template.name, template.signature,
                              PrimitiveKind("ExprGroup"),
                              template.expansion_analysis)
    IN  IF collides
        THEN [table |-> self,
              result |-> DuplicateNameError(Unwrap(template.name))]
        ELSE [table |-> MacroTable(
                            Append(self.macros_by_address, RcNew(rc, new_macro)),
                            names),
              result |-> Ok(id)]

add_macro(self, template, rc) ==
    LET id == Len(self.macros_by_address)
        collides == IsSome(template.name)
                    /\ ContainsKey(self.macros_by_name, Unwrap(template.name))
        names == IF IsSome(template.name)
                 THEN MapInsert(self.macros_by_name, Unwrap(template.name), id)
                 ELSE self.macros_by_name
        new_macro == MacroNew(template.name, template.signature,
                              TemplateKind(template.body),
                              template.expansion_analysis)
    IN  IF collides
        THEN [table |-> self,
              result |-> DuplicateNameError(Unwrap(template.name))]
        ELSE [table |-> MacroTable(
                            Append(self.macros_by_address, RcNew(rc, new_macro)),
                            names),
              result |-> Ok(id)]

\* A variant that reads next_id after the push.
ImportEntryAfterPush(self, macro_ref) ==
    LET pushed == Append(self.macros_by_address, RcClone(macro_ref))
        next_id == Len(pushed)
        name == macro_ref.macro.name
    IN  MacroTable(pushed,
                   IF IsSome(name)
                   THEN MapInsert(self.macros_by_name, Unwrap(name), next_id)
                   ELSE self.macros_by_name)

\* One iteration of the loop of append_all_macros_from, for an entry whose
\* name (if any) is free: index the name at next_id and push the shared Rc.
ImportEntry(self, macro_ref) ==
    LET next_id == len(self)
        name == macro_ref.macro.name
    IN  MacroTable(Append(self.macros_by_address, RcClone(macro_ref)),
                   IF IsSome(name)
                   THEN MapInsert(self.macros_by_name, Unwrap(name), next_id)
                   ELSE self.macros_by_name)

\* Whether the loop of append_all_macros_from returns the error at macro_ref.
ImportCollides(self, macro_ref) ==
    LET name == macro_ref.macro.name
    IN  IsSome(name) /\ ContainsKey(self.macros_by_name, Unwrap(name))

\* The loop of append_all_macros_from over other.macros_by_address[i..].
RECURSIVE AppendFrom(_, _, _)
AppendFrom(self, macros, i) ==
    IF i >= Len(macros) THEN [table |-> self, result |-> Ok(Unit)]
    ELSE LET macro_ref == macros[i + 1]
         IN  IF ImportCollides(self, macro_ref)
             THEN [table |-> self,
                   result |-> DuplicateNameError(Unwrap(macro_ref.macro.name))]
             ELSE AppendFrom(ImportEntry(self, macro_ref), macros, i + 1)

\* A variant that rolls the table back when the import fails.
append_all_macros_from_atomic(self, other) ==
    LET r == AppendFrom(self, other.macros_by_address, 0)
    IN  IF IsErr(r.result) THEN [table |-> self, result |-> r.result] ELSE r

append_all_macros_from(self, other) ==
    AppendFrom(self, other.macros_by_address, 0)

(* ------------------------------ the inputs ---------------------------- *)

BodyA == TemplateBody(<< ElementExpr("String", "hello", ExprRange(0, 1)) >>,
                      << >>)
BodyB == TemplateBody(<< ElementExpr("List", "", ExprRange(0, 2)),
                         VariableExpr(0, ExprRange(1, 2)) >>,
                      << >>)

\* The TemplateMacro values handed to add_macro: an anonymous one, a named
\* one, and one named like a system macro.
Templates ==
    { TemplateMacro(None, << >>, BodyA, ExpansionAnalysisDefault),
      TemplateMacro(Some("greet"), << >>, BodyA, ExpansionAnalysisDefault),
      TemplateMacro(Some("values"), RestSignature("x"), BodyB,
                    ExpansionAnalysisDefault) }

\* The longest table the guards below allow.
MaxLen == NUM_SYSTEM_MACROS + MaxUser

\* The entries of a table that are not the system macros' allocations.
UserEntries(self) ==
    Cardinality({i \in 1..Len(self.macros_by_address) :
                    self.macros_by_address[i].rc > NUM_SYSTEM_MACROS})

LookupNames == {"greet", "values", "absent"}
LookupAddresses == {0, NUM_SYSTEM_MACROS, MaxLen}
LookupIds == {LocalName(n) : n \in LookupNames}
             \cup {LocalAddress(a) : a \in LookupAddresses}

(* ---------------------------- the opcodes ----------------------------- *)

\* type_descriptor.rs: Opcode, the table ION_1_1_OPCODES and the const fn
\* that fills it.

Opcode(opcode_type, ion_type, length_code) ==
    [opcode_type |-> opcode_type, ion_type |-> ion_type,
     length_code |-> length_code]

DEFAULT_HEADER == Opcode("Nop", None, 0)

\* The number of entries of [Opcode; 256], one for each value of a u8.
OPCODE_COUNT == 256

\* The first match of from_byte with an arm for the typed null, 0xEB, that
\* the second match does not know.
opcode_type_for_with_typed_null(high_nibble, low_nibble) ==
    CASE high_nibble = 14 /\ low_nibble = 0 -> "IonVersionMarker"
      [] high_nibble = 14 /\ low_nibble = 10 -> "NullNull"
      [] high_nibble = 14 /\ low_nibble = 11 -> "TypedNull"
      [] high_nibble = 14 /\ low_nibble \in 12..13 -> "Nop"
      [] OTHER -> "Boolean"

\* The first match of from_byte: match (high_nibble, low_nibble).
opcode_type_for(high_nibble, low_nibble) ==
    CASE high_nibble = 14 /\ low_nibble = 0 -> "IonVersionMarker"
      [] high_nibble = 14 /\ low_nibble = 10 -> "NullNull"
      [] high_nibble = 14 /\ low_nibble \in 12..13 -> "Nop"
      [] OTHER -> "Boolean"

\* The message of the panic!(..) of from_byte.
PANIC == "the provided ion type code is either not implemented, or invalid"

\* The second match of from_byte: match opcode_type; its last arm panics.
ion_type_for(opcode_type) ==
    CASE opcode_type = "NullNull" -> Returns(Some("Null"))
      [] opcode_type = "Nop" -> Returns(None)
      [] opcode_type = "IonVersionMarker" -> Returns(None)
      [] opcode_type = "Boolean" -> Returns(Some("Bool"))
      [] OTHER -> Panics(PANIC)

\* Whether from_byte(byte) reaches the panic arm.
from_byte_panics(byte) ==
    IsSome(ion_type_for(opcode_type_for(byte \div 16, byte % 16)).panic)

\* Opcode::from_byte(byte), for a byte it does not panic on: byte >> 4 and
\* byte & 0x0F select the type.
from_byte(byte) ==
    LET high_nibble == byte \div 16
        low_nibble == byte % 16
        opcode_type == opcode_type_for(high_nibble, low_nibble)
        ion_type == Unwrap(ion_type_for(opcode_type).value)
    IN  Opcode(opcode_type, ion_type, low_nibble)

\* Header { ion_type, ion_type_code, length_code }
Header(ion_type, ion_type_code, length_code) ==
    [ion_type |-> ion_type, ion_type_code |-> ion_type_code,
     length_code |-> length_code]

\* to_header that wraps the Option instead of unwrapping it with `?`, so
\* that it gives a Header for every opcode.
to_header_of_option(self) ==
    Some(Header(self.ion_type, self.opcode_type, self.length_code))

\* Opcode::to_header(self): None if the opcode has no Ion type.
to_header(self) ==
    IF IsNone(self.ion_type)
    THEN None
    ELSE Some(Header(Unwrap(self.ion_type), self.opcode_type,
                     self.length_code))

\* A loop of init_opcode_cache that stops one entry early.
while_index_below_last(i) == i < OPCODE_COUNT - 1

\* while index < 256
while_index(i) == i < OPCODE_COUNT

\* let byte = index as u8
as_u8(i) == i % 256

(* ----------------------------- the writer ----------------------------- *)

\* writer.rs: LazyRawTextWriter_1_1, which wraps the 1.0 text writer.

\* MaxWrites: the most values written with one writer.
MaxWrites == 2

\* The whitespace configurations of the three kinds of text (crate::text).
COMPACT_WHITESPACE_CONFIG == [space_between_top_level_values |-> " "]
LINES_WHITESPACE_CONFIG == [space_between_top_level_values |-> "\n"]
PRETTY_WHITESPACE_CONFIG == [space_between_top_level_values |-> "\n\n"]

TextKinds == {"Compact", "Lines", "Pretty"}

\* WriteConfig: its kind is Text(text_config) or Binary(_).
TextConfig(text_kind) == [kind |-> "Text", text_kind |-> Some(text_kind)]
BinaryConfig == [kind |-> "Binary", text_kind |-> None]
WriteConfigs == {TextConfig(k) : k \in TextKinds} \cup {BinaryConfig}

\* The text of the Ion 1.1 version marker.
IVM_TEXT == "$ion_1_1"

\* The ways the write! of build may go: the number of bytes the output
\* accepts before it fails. An output that accepts the marker and the
\* separator does not fail.
IoOutcomes == 0..(Len(IVM_TEXT)
                  + Len(PRETTY_WHITESPACE_CONFIG.space_between_top_level_values))

\* The writer in its states: not constructed, constructed over a
\* whitespace configuration, closed, not constructed because build
\* returned an error, and not constructed because build panicked.
WriterIn(state, whitespace_config) ==
    [state |-> state, whitespace_config |-> whitespace_config]
NoWriter == WriterIn("none", None)

\* build without the `{}` of its format string: the marker alone.
build_marker_only(config, out, io) ==
    IF config.kind = "Text"
    THEN LET whitespace_config ==
                 CASE Unwrap(config.text_kind) = "Compact" ->
                         COMPACT_WHITESPACE_CONFIG
                   [] Unwrap(config.text_kind) = "Lines" ->
                         LINES_WHITESPACE_CONFIG
                   [] Unwrap(config.text_kind) = "Pretty" ->
                         PRETTY_WHITESPACE_CONFIG
         IN  [output |-> out \o IVM_TEXT,
              writer |-> WriterIn("ready", Some(whitespace_config))]
    ELSE [output |-> out, writer |-> WriterIn("panicked", None)]

\* LazyRawTextWriter_1_1::build(config, output): for a text configuration
\* it writes "$ion_1_1{}" with the configuration's separator of top-level
\* values to the output and wraps a 1.0 writer around the output; if the
\* output fails it returns the error, and the output keeps the bytes it
\* accepted before it failed; for a binary configuration it panics
\* (unreachable!).
build(config, out, io) ==
    IF config.kind = "Text"
    THEN LET whitespace_config ==
                 CASE Unwrap(config.text_kind) = "Compact" ->
                         COMPACT_WHITESPACE_CONFIG
                   [] Unwrap(config.text_kind) = "Lines" ->
                         LINES_WHITESPACE_CONFIG
                   [] Unwrap(config.text_kind) = "Pretty" ->
                         PRETTY_WHITESPACE_CONFIG
             text == IVM_TEXT
                        \o whitespace_config.space_between_top_level_values
         IN  IF io >= Len(text)
             THEN [output |-> out \o text,
                   writer |-> WriterIn("ready", Some(whitespace_config))]
             ELSE [output |-> out \o SubSeq(text, 1, io),
                   writer |-> WriterIn("failed", None)]
    ELSE [output |-> out, writer |-> WriterIn("panicked", None)]

\* A top-level value written through the 1.0 writer: its text, then the
\* separator of top-level values.
write(w, out, text) ==
    out \o text
        \o Unwrap(w.whitespace_config).space_between_top_level_values

\* close(self): the writer is consumed and hands back the output.
close(w) == WriterIn("closed", w.whitespace_config)

\* The texts of the values written, and what the output may hold before a
\* writer is built over it.
ValueTexts == {"1", "foo", "(:foo 1 2 3)"}
PriorOutputs == {"", "prior"}

(* --------------------------- the state machine ------------------------ *)

\* tables: the two MacroTable values of the model, A and B (None until it
\*         is constructed; B is constructed after A), and the thread-local
\*         ION_1_1_SYSTEM_MACROS (None until its first access).
\* nextRc: the next allocation Rc::new returns.
\* last:   the last call: its name, the table it was called on (self), its
\*         argument, the value of self before it and what it returned.

TableIds == {"A", "B"}
ThreadLocal == "ION_1_1_SYSTEM_MACROS"
Storage == TableIds \cup {ThreadLocal}

Call(op, self, other, template, id, pre, result) ==
    [op |-> op, self |-> self, other |-> other, template |-> template,
     id |-> id, pre |-> pre, result |-> result]

\* The tables constructed so far, and the value of one of them.
Live == {t \in TableIds : IsSome(tables[t])}
Table(t) == Unwrap(tables[t])

\* The table a constructor call may fill next.
Fresh(t) == IsNone(tables[t]) /\ (t = "A" \/ IsSome(tables["A"]))

\* No table is constructed and the thread-local is not yet accessed.
InitTables ==
    /\ tables = [s \in Storage |-> None]
    /\ nextRc = NUM_SYSTEM_MACROS + 1
    /\ last = Call("init", "", "", None, None, None, None)

\* No writer is built; the output holds what it was handed over with.
InitWriter(prior) ==
    /\ output = prior
    /\ writer = NoWriter
    /\ written = << >>

\* let mut jump_table = [DEFAULT_HEADER; 256]; let mut index: usize = 0;
\* the static ION_1_1_OPCODES has no value until init_opcode_cache returns,
\* and no byte is decoded yet.
InitOpcodes ==
    /\ jump_table = [b \in 0..(OPCODE_COUNT - 1) |-> DEFAULT_HEADER]
    /\ index = 0
    /\ ION_1_1_OPCODES = None
    /\ decoded = None
    /\ panic = None

Init ==
    /\ InitTables
    /\ InitWriter(<< >>)
    /\ InitOpcodes

\* A method that takes &mut self writes through a reference that aliases
\* every table sharing storage with self.
BorrowMutShared(tbls, t, value) ==
    [s \in DOMAIN tbls |->
        IF s = t \/ tbls[s] = tbls[t] THEN Some(value) ELSE tbls[s]]

\* A method that takes &mut self writes self and nothing else: the borrow
\* is exclusive and clone() gave every table its own Vec and map.
BorrowMut(tbls, t, value) == [tbls EXCEPT ![t] = Some(value)]

\* t = MacroTable::empty()
Empty(t) ==
    /\ Fresh(t)
    /\ tables' = [tables EXCEPT ![t] = Some(empty)]
    /\ last' = Call("empty", t, "", None, None, None, None)
    /\ UNCHANGED <<nextRc, writerVars, opcodeVars>>

\* t = MacroTable::with_system_macros() (also MacroTable::default())
WithSystemMacros(t) ==
    /\ Fresh(t)
    /\ tables' = [tables EXCEPT
                      ![ThreadLocal] = LocalKeyWith(tables[ThreadLocal]),
                      ![t] = Some(with_system_macros_on(tables[ThreadLocal]))]
    /\ last' = Call("with_system_macros", t, "", None, None, None, None)
    /\ UNCHANGED <<nextRc, writerVars, opcodeVars>>

\* t = src.clone()
Clone(t, src) ==
    /\ Fresh(t)
    /\ src \in Live
    /\ tables' = [tables EXCEPT ![t] = Some(TableClone(Table(src)))]
    /\ last' = Call("clone", t, src, None, None, tables[src], None)
    /\ UNCHANGED <<nextRc, writerVars, opcodeVars>>

\* t.add_macro(template)
AddMacro(t, template) ==
    /\ t \in Live
    /\ LET r == add_macro(Table(t), template, nextRc)
       IN  /\ UserEntries(r.table) <= MaxUser
           /\ IsOk(r.result) => nextRc < NUM_SYSTEM_MACROS + 1 + MaxAdds
           /\ tables' = BorrowMut(tables, t, r.table)
           /\ nextRc' = IF IsOk(r.result) THEN nextRc + 1 ELSE nextRc
           /\ last' = Call("add_macro", t, "", Some(template), None,
                           tables[t], Some(r.result))
    /\ UNCHANGED <<writerVars, opcodeVars>>

\* t.append_all_macros_from(&o); the borrow rules keep the two tables
\* distinct.
AppendAllMacrosFrom(t, o) ==
    /\ t \in Live
    /\ o \in Live
    /\ t # o
    /\ LET r == append_all_macros_from(Table(t), Table(o))
       IN  /\ UserEntries(r.table) <= MaxUser
           /\ tables' = BorrowMut(tables, t, r.table)
           /\ last' = Call("append_all_macros_from", t, o, None, None,
                           tables[t], Some(r.result))
    /\ UNCHANGED <<nextRc, writerVars, opcodeVars>>

\* t.macro_with_id(id): takes &self.
MacroWithId(t, id) ==
    /\ t \in Live
    /\ last' = Call("macro_with_id", t, "", None, Some(id), tables[t],
                    Some(macro_with_id(Table(t), id)))
    /\ UNCHANGED <<tables, nextRc, writerVars, opcodeVars>>

(* ---------------------------- the evaluator --------------------------- *)

\* The macro evaluator is a collaborator of the macro table; what follows
\* is its behaviour as far as the number and the shape of the values of an
\* expansion go.

\* MaxArgs: the most values an invocation passes for one parameter.
MaxArgs == 2

\* A value as the expansion analysis sees it.
Value(is_null, ion_type, num_annotations) ==
    [is_null |-> is_null, ion_type |-> ion_type,
     num_annotations |-> num_annotations]

\* The values an invocation may pass.
ArgValues == {Value(FALSE, "Int", 0), Value(TRUE, "Null", 1)}

\* The sequences of at least least and at most most argument values.
ArgSeqs(least, most) ==
    UNION {[1..n -> ArgValues] : n \in least..most}

\* The argument lists a parameter accepts, by its cardinality.
ArgsFor(parameter) ==
    CASE parameter.cardinality = "ExactlyOne" -> ArgSeqs(1, 1)
      [] parameter.cardinality = "ZeroOrOne" -> ArgSeqs(0, 1)
      [] parameter.cardinality = "OneOrMore" -> ArgSeqs(1, MaxArgs)
      [] OTHER -> ArgSeqs(0, MaxArgs)

\* The valid argument bindings of a signature: one argument list for each
\* parameter, in positional order.
Bindings(signature) ==
    {b \in [1..Len(signature) -> ArgSeqs(0, MaxArgs)] :
        \A i \in 1..Len(signature) : b[i] \in ArgsFor(signature[i])}

\* The value a literal element of a template body expands to.
ElementValue(expr) ==
    Value(expr.value = "Null", expr.value,
          IF IsSome(expr.annotations_range)
          THEN Unwrap(expr.annotations_range).end
                 - Unwrap(expr.annotations_range).start
          ELSE 0)

\* The walk of a template body at its top level, from flat index k: an
\* element yields its value, a variable the arguments bound to its
\* parameter, and the walk goes on where the range of the expression ends.
RECURSIVE ExpandFrom(_, _, _)
ExpandFrom(exprs, k, binding) ==
    IF k >= Len(exprs)
    THEN << >>
    ELSE LET expr == exprs[k + 1]
             values == IF expr.kind = "Element"
                       THEN << ElementValue(expr) >>
                       ELSE binding[Unwrap(expr.parameter_index) + 1]
         IN  IF expr.range.end <= k
             THEN values
             ELSE values \o ExpandFrom(exprs, expr.range.end, binding)

\* The values of an expansion of macro m under a binding: by the native
\* semantics of a primitive, by the walk of the body of a template.
Expand(m, binding) ==
    CASE m.kind.tag = "Template" ->
            ExpandFrom(Unwrap(m.kind.body).expressions, 0, binding)
      [] m.kind.tag = "MakeString" -> << Value(FALSE, "String", 0) >>
      [] m.kind.tag = "MakeSExp" -> << Value(FALSE, "SExp", 0) >>
      [] m.kind.tag = "Annotate" ->
            << [binding[2][1] EXCEPT
                  !.num_annotations = @ + Len(binding[1])] >>
      [] OTHER -> << >>

\* The evaluator resolves the macro at an address of t and expands it
\* under a valid binding of its signature.
ExpandAt(t, address) ==
    /\ t \in Live
    /\ IsSome(macro_at_address(Table(t), address))
    /\ LET m == Unwrap(macro_at_address(Table(t), address)).reference.macro
       IN  \E binding \in Bindings(m.signature) :
               last' = Call("expand", t, "", None,
                            Some(LocalAddress(address)), tables[t],
                            Some([binding |-> binding,
                                  values |-> Expand(m, binding)]))
    /\ UNCHANGED <<tables, nextRc, writerVars, opcodeVars>>

Next ==
    \/ \E t \in TableIds : Empty(t)
    \/ \E t \in TableIds : WithSystemMacros(t)
    \/ \E t \in TableIds, src \in TableIds : Clone(t, src)
    \/ \E t \in TableIds, template \in Templates : AddMacro(t, template)
    \/ \E t \in TableIds, o \in TableIds : AppendAllMacrosFrom(t, o)
    \/ \E t \in TableIds, id \in LookupIds : MacroWithId(t, id)

Spec == Init /\ [][Next]_vars

\* The evaluator at work on tables fresh from with_system_macros().
NextExpand ==
    \/ \E t \in TableIds : WithSystemMacros(t)
    \/ \E t \in TableIds, address \in 0..(NUM_SYSTEM_MACROS - 1) :
          ExpandAt(t, address)

SpecExpand == Init /\ [][NextExpand]_vars

(* ----------------------- templates of the tables ---------------------- *)

\* A caller resolves an address of t and requires the macro there to be a
\* template: t.macro_at_address(address)?.require_template()
RequireTemplate(t, address) ==
    /\ t \in Live
    /\ IsSome(macro_at_address(Table(t), address))
    /\ last' = Call("require_template", t, "", None,
                    Some(LocalAddress(address)), tables[t],
                    Some(require_template(
                        Unwrap(macro_at_address(Table(t), address)))))
    /\ UNCHANGED <<tables, nextRc, writerVars, opcodeVars>>

\* Tables made by empty() and with_system_macros(), grown by add_macro,
\* and the callers that require templates of them.
NextTemplates ==
    \/ \E t \in TableIds : Empty(t)
    \/ \E t \in TableIds : WithSystemMacros(t)
    \/ \E t \in TableIds, template \in Templates : AddMacro(t, template)
    \/ \E t \in TableIds, address \in 0..(MaxLen - 1) :
          RequireTemplate(t, address)

SpecTemplates == Init /\ [][NextTemplates]_vars

(* ------------------------- the opcode table --------------------------- *)

\* One iteration of the loop of init_opcode_cache:
\* jump_table[index] = Opcode::from_byte(index as u8); index += 1.
\* A panic of from_byte ends the evaluation of the static.
InitOpcodeCacheStep ==
    /\ IsNone(panic)
    /\ IsNone(ION_1_1_OPCODES)
    /\ while_index(index)
    /\ IF from_byte_panics(as_u8(index))
       THEN /\ panic' = Some(PANIC)
            /\ UNCHANGED <<jump_table, index>>
       ELSE /\ jump_table' =
                  [jump_table EXCEPT ![index] = from_byte(as_u8(index))]
            /\ index' = index + 1
            /\ UNCHANGED panic
    /\ UNCHANGED <<ION_1_1_OPCODES, decoded, tableVars, writerVars>>

\* The loop is over: init_opcode_cache returns jump_table, the value of
\* the static ION_1_1_OPCODES.
InitOpcodeCacheReturn ==
    /\ IsNone(panic)
    /\ IsNone(ION_1_1_OPCODES)
    /\ ~while_index(index)
    /\ ION_1_1_OPCODES' = Some(jump_table)
    /\ UNCHANGED <<jump_table, index, decoded, panic, tableVars, writerVars>>

\* A reader maps a byte to its Opcode through the table and asks for the
\* header: ION_1_1_OPCODES[byte].to_header()
Decode(byte) ==
    /\ IsSome(ION_1_1_OPCODES)
    /\ decoded' = Some([byte |-> byte,
                        opcode |-> Unwrap(ION_1_1_OPCODES)[byte],
                        header |-> to_header(Unwrap(ION_1_1_OPCODES)[byte])])
    /\ UNCHANGED <<jump_table, index, ION_1_1_OPCODES, panic, tableVars,
                   writerVars>>

NextOpcodes ==
    \/ InitOpcodeCacheStep
    \/ InitOpcodeCacheReturn
    \/ \E byte \in 0..(OPCODE_COUNT - 1) : Decode(byte)

SpecOpcodes == Init /\ [][NextOpcodes]_vars

(* ------------------------- the writer at work -------------------------- *)

\* writer = LazyRawTextWriter_1_1::build(config, output)
Build(config, io) ==
    /\ writer.state = "none"
    /\ output' = build(config, output, io).output
    /\ writer' = build(config, output, io).writer
    /\ UNCHANGED <<written, tableVars, opcodeVars>>

\* writer.write(value)
Write(text) ==
    /\ writer.state = "ready"
    /\ Len(written) < MaxWrites
    /\ output' = write(writer, output, text)
    /\ written' = Append(written, text)
    /\ UNCHANGED <<writer, tableVars, opcodeVars>>

\* writer.close()
Close ==
    /\ writer.state = "ready"
    /\ writer' = close(writer)
    /\ UNCHANGED <<output, written, tableVars, opcodeVars>>

NextWriter ==
    \/ \E config \in WriteConfigs, io \in IoOutcomes : Build(config, io)
    \/ \E text \in ValueTexts : Write(text)
    \/ Close

\* A writer is about to be built over an output that holds nothing or
\* something.
InitOutput ==
    /\ InitTables
    /\ \E prior \in PriorOutputs : InitWriter(prior)
    /\ InitOpcodes

SpecWriter == InitOutput /\ [][NextWriter]_vars

(* ------------------------- vocabulary of the claims ------------------- *)

\* Every macro name in play, and one that no macro has.
Names ==
    {Unwrap(SystemMacroDefinitions[i].name) :
        i \in {j \in 1..Len(SystemMacroDefinitions) :
                  IsSome(SystemMacroDefinitions[j].name)}}
    \cup {Unwrap(t.name) : t \in {u \in Templates : IsSome(u.name)}}
    \cup {"absent"}

\* Every address a table of the model may hold, and some beyond.
Addresses == 0..(MaxLen + 1)

\* The last call was op; Pre and Post are self before and after it, Other
\* its table argument, Result what it returned.
Called(op) == last.op = op
Pre == Unwrap(last.pre)
Post == Table(last.self)
Other == Table(last.other)
Result == Unwrap(last.result)
Template == Unwrap(last.template)

\* Whether macros is a prefix of longer.
IsPrefix(macros, longer) ==
    /\ Len(macros) <= Len(longer)
    /\ \A i \in 1..Len(macros) : macros[i] = longer[i]

\* Whether some macro of the table is named name.
HasMacroNamed(self, name) ==
    \E i \in 1..Len(self.macros_by_address) :
        self.macros_by_address[i].macro.name = Some(name)

(* -------------------------------- C1 ---------------------------------- *)

\* What one step does to the addresses of a table that exists before it:
\* the table is still there, it is no shorter, and every address it had
\* resolves to the very same macro (same allocation, same contents), so
\* that whatever the step appended sits at strictly larger addresses.
KeepsAddresses(before, after) ==
    /\ len(after) >= len(before)
    /\ \A a \in Addresses :
          a < len(before) =>
              /\ IsSome(macro_at_address(after, a))
              /\ macro_at_address(after, a) = macro_at_address(before, a)

\* C1 (address stability): in every step, every constructed table keeps
\* every macro at the address it was appended at and never gets shorter,
\* whether the step's call succeeded or failed; and a table made by
\* clone() resolves every address exactly as the table it was cloned from.
C1_AddressStability ==
    [][ /\ \A t \in TableIds :
              IsSome(tables[t]) =>
                  /\ IsSome(tables'[t])
                  /\ KeepsAddresses(Unwrap(tables[t]), Unwrap(tables'[t]))
        /\ \A t \in TableIds :
              (IsNone(tables[t]) /\ IsSome(tables'[t]) /\ last'.op = "clone")
                  => /\ len(Unwrap(tables'[t])) = len(Unwrap(tables[last'.other]))
                     /\ \A a \in Addresses :
                           macro_at_address(Unwrap(tables'[t]), a)
                             = macro_at_address(Unwrap(tables[last'.other]), a)
      ]_vars

\* Both tables are constructed, and a later add_macro has appended to a
\* non-empty table.
C1_Witness ==
    /\ Live = TableIds
    /\ Called("add_macro") /\ IsOk(Result)
    /\ len(Pre) >= 1
    /\ len(Post) > len(Pre)

(* -------------------------------- C2 ---------------------------------- *)

\* C2 (name/address equivalence): in every table, a name that resolves to
\* a MacroRef at address a is the name of the macro at a, macro_at_address(a)
\* is an equal MacroRef, and address_for_name gives a.
C2_NameAddressEquivalence ==
    \A t \in Live : \A n \in Names :
        LET byName == macro_with_name(Table(t), n)
        IN  IsSome(byName) =>
                LET a == Unwrap(byName).address
                    byAddress == macro_at_address(Table(t), a)
                IN  /\ IsSome(byAddress)
                    /\ Unwrap(byAddress).address = a
                    /\ MacroRefEq(Unwrap(byAddress), Unwrap(byName))
                    /\ Unwrap(byAddress).reference.macro.name = Some(n)
                    /\ address_for_name(Table(t), n) = Some(a)

\* A table that resolves an imported name at an address that is not 0.
C2_Witness ==
    /\ Called("append_all_macros_from")
    /\ \E n \in Names :
          /\ IsNone(macro_with_name(Pre, n))
          /\ IsSome(macro_with_name(Post, n))
          /\ Unwrap(macro_with_name(Post, n)).address > 0

(* -------------------------------- C3 ---------------------------------- *)

\* C3 (duplicate rejection): add_macro with a template whose name is a key
\* of the name index returns the duplicate-name decoding error and leaves
\* the length, the address list and the name index as they were.
C3_DuplicateRejection ==
    (/\ Called("add_macro")
     /\ IsSome(Template.name)
     /\ ContainsKey(Pre.macros_by_name, Unwrap(Template.name)))
    => /\ Result = DuplicateNameError(Unwrap(Template.name))
       /\ Unwrap(Result.error).kind = "Decoding"
       /\ len(Post) = len(Pre)
       /\ Post.macros_by_address = Pre.macros_by_address
       /\ Post.macros_by_name = Pre.macros_by_name

\* A rejected add_macro on a table that holds the name.
C3_Witness ==
    /\ Called("add_macro")
    /\ IsSome(Template.name)
    /\ ContainsKey(Pre.macros_by_name, Unwrap(Template.name))
    /\ IsErr(Result)

(* -------------------------------- C4 ---------------------------------- *)

\* C4 (successful add_macro): the returned address is the length before
\* the call, the length grows by one, the new macro (a Template macro made
\* from the template) is what macro_at_address finds there and, if named,
\* what macro_with_name finds at that address; on empty() the address is
\* 0; and add_macro with the name of a macro of the table fails.
C4_AddMacro ==
    Called("add_macro") =>
        /\ IsOk(Result) =>
              LET a == Unwrap(Result.value)
                  found == macro_at_address(Post, a)
              IN  /\ a = len(Pre)
                  /\ len(Post) = len(Pre) + 1
                  /\ IsSome(found)
                  /\ Unwrap(found).address = a
                  /\ Unwrap(found).reference.macro
                        = MacroFromTemplateMacro(Template)
                  /\ IsSome(Template.name) =>
                        macro_with_name(Post, Unwrap(Template.name)) = found
                  /\ Pre = empty => a = 0
        /\ (IsSome(Template.name)
            /\ HasMacroNamed(Pre, Unwrap(Template.name))) => IsErr(Result)

\* The first, named macro of an empty table, at address 0.
C4_Witness ==
    /\ Called("add_macro") /\ IsOk(Result)
    /\ Pre = empty
    /\ IsSome(Template.name)
    /\ Unwrap(Result.value) = 0

(* -------------------------------- C5 ---------------------------------- *)

\* A table whose first NUM_SYSTEM_MACROS addresses hold the system macros.
Bootstrapped(self) ==
    IsPrefix(ION_1_1_SYSTEM_MACROS.macros_by_address, self.macros_by_address)

\* C5 (system partition): a table fresh from with_system_macros() has
\* exactly NUM_SYSTEM_MACROS entries, at addresses 0..NUM_SYSTEM_MACROS-1;
\* the first successful add_macro on it returns FIRST_USER_MACRO_ID =
\* NUM_SYSTEM_MACROS; and add_macro on a table that begins with the system
\* macros never returns an address below FIRST_USER_MACRO_ID.
C5_SystemPartition ==
    /\ FIRST_USER_MACRO_ID = NUM_SYSTEM_MACROS
    /\ Called("with_system_macros") =>
          /\ len(Post) = NUM_SYSTEM_MACROS
          /\ \A a \in Addresses :
                IsSome(macro_at_address(Post, a)) <=> a < NUM_SYSTEM_MACROS
    /\ (Called("add_macro") /\ IsOk(Result) /\ Pre = with_system_macros)
          => Unwrap(Result.value) = FIRST_USER_MACRO_ID
    /\ (Called("add_macro") /\ IsOk(Result) /\ Bootstrapped(Pre))
          => Unwrap(Result.value) >= FIRST_USER_MACRO_ID

\* The first successful add_macro on a bootstrapped table, after one that
\* was rejected for naming a system macro.
C5_Witness ==
    /\ Called("add_macro") /\ IsOk(Result)
    /\ Pre = with_system_macros
    /\ Unwrap(Result.value) = NUM_SYSTEM_MACROS

\* C5 as stated, with its last clause over every table: a table fresh from
\* with_system_macros() has exactly NUM_SYSTEM_MACROS entries, the first
\* successful add_macro on it returns FIRST_USER_MACRO_ID, and no successful
\* add_macro, on any table, returns an address below FIRST_USER_MACRO_ID.
\* add_macro on a table that began as empty() returns its length, which is
\* below FIRST_USER_MACRO_ID.
C5_AsStated ==
    /\ FIRST_USER_MACRO_ID = NUM_SYSTEM_MACROS
    /\ Called("with_system_macros") =>
          /\ len(Post) = NUM_SYSTEM_MACROS
          /\ \A a \in Addresses :
                IsSome(macro_at_address(Post, a)) <=> a < NUM_SYSTEM_MACROS
    /\ (Called("add_macro") /\ IsOk(Result) /\ Pre = with_system_macros)
          => Unwrap(Result.value) = FIRST_USER_MACRO_ID
    /\ (Called("add_macro") /\ IsOk(Result))
          => Unwrap(Result.value) >= FIRST_USER_MACRO_ID

(* -------------------------------- C6 ---------------------------------- *)

\* The names of the macros of a table.
MacroNames(self) == {n \in Names : HasMacroNamed(self, n)}

\* C6 (merge round-trip): when no macro name of A is a macro name of B,
\* A.append_all_macros_from(B) succeeds, the length becomes len(A) + len(B),
\* whatever A resolved by address or by name it still resolves to the same
\* MacroRef, and every name of B resolves at an address >= the old len(A)
\* to a macro equal to B's macro of that name.
C6_MergeRoundTrip ==
    (/\ Called("append_all_macros_from")
     /\ MacroNames(Pre) \cap MacroNames(Other) = {})
    => /\ IsOk(Result)
       /\ len(Post) = len(Pre) + len(Other)
       /\ \A a \in Addresses :
             IsSome(macro_at_address(Pre, a)) =>
                 macro_at_address(Post, a) = macro_at_address(Pre, a)
       /\ \A n \in Names :
             IsSome(macro_with_name(Pre, n)) =>
                 macro_with_name(Post, n) = macro_with_name(Pre, n)
       /\ \A n \in MacroNames(Other) :
             LET r == macro_with_name(Post, n)
             IN  /\ IsSome(r)
                 /\ Unwrap(r).address >= len(Pre)
                 /\ Unwrap(r).reference.macro.name = Some(n)
                 /\ Unwrap(r).reference.macro
                       = Unwrap(macro_with_name(Other, n)).reference.macro

\* A merge of two tables that both hold named macros, with disjoint names.
C6_Witness ==
    /\ Called("append_all_macros_from")
    /\ MacroNames(Pre) # {}
    /\ MacroNames(Other) # {}
    /\ MacroNames(Pre) \cap MacroNames(Other) = {}
    /\ len(Post) = len(Pre) + len(Other)

(* -------------------------------- C7 ---------------------------------- *)

\* Whether the i-th macro of other (counting from 1) has a name that is in
\* self's name index when the loop reaches it: a key before the call, or
\* the name of an entry of other imported before it.
CollidesAt(self, other, i) ==
    LET name == other.macros_by_address[i].macro.name
    IN  /\ IsSome(name)
        /\ \/ ContainsKey(self.macros_by_name, Unwrap(name))
           \/ \E j \in 1..(i - 1) : other.macros_by_address[j].macro.name = name

Collisions(self, other) ==
    {i \in 1..len(other) : CollidesAt(self, other, i)}

FirstCollision(self, other) ==
    CHOOSE i \in Collisions(self, other) :
        \A j \in Collisions(self, other) : i <= j

\* C7 (partial merge on conflict): when some macro of other collides, the
\* call returns the duplicate-name error for the first such macro; the
\* entries of other before it are appended, in order, and the named ones
\* indexed at their new addresses; neither that macro nor any after it is
\* appended; and the colliding name maps to the address it had.
C7_PartialMerge ==
    (/\ Called("append_all_macros_from")
     /\ Collisions(Pre, Other) # {})
    => LET k == FirstCollision(Pre, Other)
           name == Unwrap(Other.macros_by_address[k].macro.name)
       IN  /\ Result = DuplicateNameError(name)
           /\ Post.macros_by_address
                 = Pre.macros_by_address
                       \o SubSeq(Other.macros_by_address, 1, k - 1)
           /\ len(Post) = len(Pre) + (k - 1)
           /\ \A j \in 1..(k - 1) :
                 LET imported == Other.macros_by_address[j]
                 IN  IsSome(imported.macro.name) =>
                       /\ address_for_name(Post, Unwrap(imported.macro.name))
                             = Some(len(Pre) + j - 1)
                       /\ macro_with_name(Post, Unwrap(imported.macro.name))
                             = Some(MacroRef(len(Pre) + j - 1, imported))
           /\ address_for_name(Post, name) = address_for_name(Pre, name)
           /\ IsSome(address_for_name(Pre, name))
           /\ DOMAIN Post.macros_by_name
                 = DOMAIN Pre.macros_by_name
                   \cup {Unwrap(Other.macros_by_address[j].macro.name) :
                           j \in {i \in 1..(k - 1) :
                                IsSome(Other.macros_by_address[i].macro.name)}}

\* A failed import that left a named entry of other appended and indexed.
C7_Witness ==
    /\ Called("append_all_macros_from")
    /\ IsErr(Result)
    /\ len(Post) > len(Pre)
    /\ DOMAIN Post.macros_by_name # DOMAIN Pre.macros_by_name

(* -------------------------------- C8 ---------------------------------- *)

\* C8 as stated: after add_macro or append_all_macros_from returns the
\* duplicate-name error, the address list and the name index are those
\* before the call.
C8_NoPartialEffect ==
    ((Called("add_macro") \/ Called("append_all_macros_from"))
     /\ IsErr(Result))
    => /\ Post.macros_by_address = Pre.macros_by_address
       /\ Post.macros_by_name = Pre.macros_by_name

\* C8, amended: a failed add_macro leaves the address list and the name
\* index as they were.  A failed append_all_macros_from leaves every entry
\* and every name the table had as it was and appends neither the colliding
\* entry nor any entry after it, but the entries of other before the first
\* collision stay appended; the table is as before exactly when the first
\* entry of other is the one that collides.
C8_FailureEffect ==
    /\ (Called("add_macro") /\ IsErr(Result)) => Post = Pre
    /\ (Called("append_all_macros_from") /\ IsErr(Result)) =>
          LET k == len(Post) - len(Pre)
          IN  /\ IsPrefix(Pre.macros_by_address, Post.macros_by_address)
              /\ \A n \in DOMAIN Pre.macros_by_name :
                    address_for_name(Post, n) = address_for_name(Pre, n)
              /\ k < len(Other)
              /\ ImportCollides(Post, Other.macros_by_address[k + 1])
              /\ \A j \in 1..k :
                    /\ Post.macros_by_address[len(Pre) + j]
                          = Other.macros_by_address[j]
                    /\ ~ImportCollides(Pre, Other.macros_by_address[j])
              /\ (Post = Pre) <=> ImportCollides(Pre, Other.macros_by_address[1])

\* A failed import into a table with names that left entries appended.
C8_Witness ==
    /\ Called("append_all_macros_from")
    /\ IsErr(Result)
    /\ Post # Pre
    /\ DOMAIN Pre.macros_by_name # {}

(* -------------------------------- C9 ---------------------------------- *)

\* C9 (misses are absent results): macro_at_address(a) is None exactly for
\* a >= len() and otherwise the MacroRef of address a and the macro stored
\* there; macro_with_name(n) is None exactly when no macro of the table is
\* named n; macro_with_id gives macro_with_name's result for a LocalName
\* and macro_at_address's for a LocalAddress; a lookup returns an Option,
\* never an error, and leaves the table as it was.
C9_Lookups ==
    /\ \A t \in Live :
          /\ \A a \in Addresses :
                LET r == macro_at_address(Table(t), a)
                IN  /\ IsNone(r) <=> a >= len(Table(t))
                    /\ IsSome(r) =>
                          /\ Unwrap(r).address = a
                          /\ Unwrap(r).reference
                                = Table(t).macros_by_address[a + 1]
                    /\ macro_with_id(Table(t), LocalAddress(a)) = r
          /\ \A n \in Names :
                LET r == macro_with_name(Table(t), n)
                IN  /\ IsNone(r) <=> ~HasMacroNamed(Table(t), n)
                    /\ macro_with_id(Table(t), LocalName(n)) = r
    /\ Called("macro_with_id") =>
          LET id == Unwrap(last.id)
          IN  /\ Post = Pre
              /\ Result \in {None} \cup
                    {Some(MacroRef(a, Pre.macros_by_address[a + 1])) :
                        a \in 0..(len(Pre) - 1)}
              /\ id.tag = "LocalName" =>
                    Result = macro_with_name(Pre, Unwrap(id.name))
              /\ id.tag = "LocalAddress" =>
                    Result = macro_at_address(Pre, Unwrap(id.address))

\* A lookup by an unknown name in a table that holds macros.
C9_Witness ==
    /\ Called("macro_with_id")
    /\ Unwrap(last.id).tag = "LocalName"
    /\ Result = None
    /\ len(Post) > 0

(* -------------------------------- C10 --------------------------------- *)

\* The addresses a call appended.
Appended == {a \in Addresses : len(Pre) <= a /\ a < len(Post)}

\* C10 (anonymous templates): add_macro with a nameless template succeeds,
\* appends the macro at address len() and leaves the name index as it was;
\* an anonymous macro imported by append_all_macros_from occupies an address
\* that no entry of the name index maps to, and adds no key.
C10_Anonymous ==
    /\ (Called("add_macro") /\ IsNone(Template.name)) =>
          /\ IsOk(Result)
          /\ Unwrap(Result.value) = len(Pre)
          /\ len(Post) = len(Pre) + 1
          /\ IsPrefix(Pre.macros_by_address, Post.macros_by_address)
          /\ Post.macros_by_address[len(Post)].macro
                = MacroFromTemplateMacro(Template)
          /\ Post.macros_by_name = Pre.macros_by_name
    /\ Called("append_all_macros_from") =>
          /\ \A a \in Appended :
                IsNone(Post.macros_by_address[a + 1].macro.name) =>
                    /\ IsSome(macro_at_address(Post, a))
                    /\ \A n \in DOMAIN Post.macros_by_name :
                          Post.macros_by_name[n] # a
          /\ Cardinality(DOMAIN Post.macros_by_name)
                = Cardinality(DOMAIN Pre.macros_by_name)
                  + Cardinality({a \in Appended :
                        IsSome(Post.macros_by_address[a + 1].macro.name)})

\* A second anonymous macro added to a table that also holds named ones.
C10_Witness ==
    /\ Called("add_macro")
    /\ IsNone(Template.name)
    /\ IsOk(Result)
    /\ \E i \in 1..len(Pre) : IsNone(Pre.macros_by_address[i].macro.name)
    /\ DOMAIN Pre.macros_by_name # {}

(* -------------------------------- C11 --------------------------------- *)

\* Whether two values of a table answer every query alike: the length, the
\* name index and each lookup by address and by name.
SameLookups(before, after) ==
    /\ len(after) = len(before)
    /\ after.macros_by_name = before.macros_by_name
    /\ \A a \in Addresses :
          macro_at_address(after, a) = macro_at_address(before, a)
    /\ \A n \in Names :
          /\ macro_with_name(after, n) = macro_with_name(before, n)
          /\ address_for_name(after, n) = address_for_name(before, n)

\* C11 (clone independence): a step of add_macro or append_all_macros_from
\* on one table leaves every other table, its clones and the table it was
\* cloned from among them, and the thread's system table with the same
\* length, name index and lookup results; and every with_system_macros(),
\* whatever was done to the tables it returned before, returns a table of
\* exactly NUM_SYSTEM_MACROS entries that are the system macros.
C11_CloneIndependence ==
    [][ /\ last'.op \in {"add_macro", "append_all_macros_from"} =>
              \A s \in Storage \ {last'.self} :
                  /\ IsSome(tables'[s]) = IsSome(tables[s])
                  /\ IsSome(tables[s]) =>
                        SameLookups(Unwrap(tables[s]), Unwrap(tables'[s]))
        /\ last'.op = "with_system_macros" =>
              LET r == Unwrap(tables'[last'.self])
              IN  /\ len(r) = NUM_SYSTEM_MACROS
                  /\ r.macros_by_address = compile_system_macros
                  /\ SameLookups(construct_system_macro_table, r)
      ]_vars

\* An add_macro has changed a table while the other table still is what
\* the changed one was before: one is a clone of the other, or both came
\* from with_system_macros().
C11_Witness ==
    /\ Called("add_macro") /\ IsOk(Result)
    /\ len(Pre) >= NUM_SYSTEM_MACROS
    /\ \E t \in Live \ {last.self} : Table(t) = Pre
    /\ tables[ThreadLocal] = Some(construct_system_macro_table)

(* -------------------------------- C12 --------------------------------- *)

\* The system macros that compile_system_macros() gives a template body.
SystemTemplateNames ==
    {"values", "set_symbols", "add_symbols", "set_macros", "add_macros"}

\* The flat expressions of the body of a Template macro.
Expressions(m) == Unwrap(m.kind.body).expressions

\* Whether range inner lies within range outer.
Within(inner, outer) ==
    outer.start <= inner.start /\ inner.end <= outer.end

\* The flat indexes of the direct children of an expression, found as a
\* reader of the body finds them: the first child is at k, the next one
\* where the range of this one ends, until end is reached.
RECURSIVE ChildrenFrom(_, _, _)
ChildrenFrom(exprs, k, end) ==
    IF k >= end \/ k >= Len(exprs)
    THEN << >>
    ELSE IF exprs[k + 1].range.end <= k
         THEN << k >>
         ELSE << k >> \o ChildrenFrom(exprs, exprs[k + 1].range.end, end)

\* The ranges of a flat body are nested: expression i starts at i and ends
\* after it and within the body, holds the ranges of all the expressions
\* inside it, and its children tile i+1..end without gap or overlap; the
\* first expression spans the body.
WellNested(exprs) ==
    /\ Len(exprs) >= 1
    /\ exprs[1].range = ExprRange(0, Len(exprs))
    /\ \A i \in 0..(Len(exprs) - 1) :
          LET r == exprs[i + 1].range
              kids == ChildrenFrom(exprs, i + 1, r.end)
              kid(c) == exprs[kids[c] + 1].range
          IN  /\ r.start = i
              /\ i < r.end
              /\ r.end <= Len(exprs)
              /\ \A k \in (i + 1)..(r.end - 1) : Within(exprs[k + 1].range, r)
              /\ \A c \in 1..Len(kids) :
                    /\ kid(c).start = IF c = 1 THEN i + 1 ELSE kid(c - 1).end
                    /\ kid(c).start < kid(c).end
                    /\ \A d \in (c + 1)..Len(kids) : kid(c).end <= kid(d).start
              /\ Len(kids) > 0 => kid(Len(kids)).end = r.end

\* C12 (range nesting): in the table with_system_macros() returns, values,
\* set_symbols, add_symbols, set_macros and add_macros resolve to Template
\* macros whose flat bodies are nested as WellNested says: expression i has
\* range i..j with i < j <= the number of expressions, every expression
\* between has its range within i..j, the children's ranges are disjoint
\* and contiguous from i+1 to j, and expression 0 spans the whole body.
C12_RangeNesting ==
    Called("with_system_macros") =>
        \A n \in SystemTemplateNames :
            LET found == macro_with_name(Post, n)
            IN  /\ IsSome(found)
                /\ Unwrap(found).reference.macro.kind.tag = "Template"
                /\ WellNested(Expressions(Unwrap(found).reference.macro))

\* A table fresh from with_system_macros() in which set_symbols has an
\* s-expression whose two children are s-expressions with children of their
\* own.
C12_Witness ==
    /\ Called("with_system_macros")
    /\ LET exprs == Expressions(
                      Unwrap(macro_with_name(Post, "set_symbols")).reference.macro)
       IN  /\ ChildrenFrom(exprs, 1, exprs[1].range.end) = << 1, 5 >>
           /\ ChildrenFrom(exprs, 2, exprs[2].range.end) = << 2, 3 >>
           /\ ChildrenFrom(exprs, 6, exprs[6].range.end) = << 6, 7 >>

(* -------------------------------- C13 --------------------------------- *)

\* C13 (make_string): in the table with_system_macros() returns,
\* macro_with_name("make_string") finds a macro of kind MakeString whose
\* signature is exactly one parameter, of cardinality ZeroOrMore, and whose
\* expansion_singleton is Some: not null, of Ion type String, with no
\* annotations.
C13_MakeString ==
    Called("with_system_macros") =>
        LET found == macro_with_name(Post, "make_string")
        IN  /\ IsSome(found)
            /\ LET m == Unwrap(found).reference.macro
               IN  /\ m.kind = PrimitiveKind("MakeString")
                   /\ Len(m.signature) = 1
                   /\ m.signature[1].cardinality = "ZeroOrMore"
                   /\ m.expansion_analysis.expansion_singleton
                        = Some([is_null |-> FALSE, ion_type |-> "String",
                                num_annotations |-> 0])

\* make_string has been looked up by name in a table fresh from
\* with_system_macros(), and found past the first address.
C13_Witness ==
    /\ Called("with_system_macros")
    /\ IsSome(macro_with_name(Post, "make_string"))
    /\ Unwrap(macro_with_name(Post, "make_string")).address = 2
    /\ Unwrap(macro_with_name(Post, "make_string")).reference.macro.name
          = Some("make_string")

(* -------------------------------- C14 --------------------------------- *)

\* The macros of a table, one per address.
MacrosOf(self) ==
    {self.macros_by_address[i].macro : i \in 1..Len(self.macros_by_address)}

\* C14 (lazy evaluation): every macro of the table with_system_macros()
\* returns that can be lazily evaluated at the top level must produce
\* exactly one value and cannot produce a system value.
C14_LazyEvaluation ==
    Called("with_system_macros") =>
        \A m \in MacrosOf(Post) :
            m.expansion_analysis.can_be_lazily_evaluated_at_top_level =>
                /\ m.expansion_analysis.must_produce_exactly_one_value
                /\ ~m.expansion_analysis.could_produce_system_value

\* A table fresh from with_system_macros() holds a macro that can be lazily
\* evaluated and one that cannot although it produces exactly one value.
C14_Witness ==
    /\ Called("with_system_macros")
    /\ \E m \in MacrosOf(Post) :
          m.expansion_analysis.can_be_lazily_evaluated_at_top_level
    /\ \E m \in MacrosOf(Post) :
          /\ ~m.expansion_analysis.can_be_lazily_evaluated_at_top_level
          /\ m.expansion_analysis.must_produce_exactly_one_value
          /\ m.expansion_analysis.could_produce_system_value

(* -------------------------------- C15 --------------------------------- *)

\* The macro the last expand call expanded, the binding it was given and
\* the values it produced.
Expanded ==
    Unwrap(macro_at_address(Pre, Unwrap(Unwrap(last.id).address)))
        .reference.macro
Binding == Result.binding
Values == Result.values

\* C15 (singleton consistency): whenever a macro whose expansion_singleton
\* is Some(s) is expanded under a valid binding of its signature, the
\* expansion is exactly one value, and its nullability, Ion type and number
\* of annotations are those of s; for set_symbols, add_symbols, set_macros
\* and add_macros that value is a non-null s-expression with exactly one
\* annotation.
C15_SingletonConsistency ==
    Called("expand") =>
        /\ IsSome(Expanded.expansion_analysis.expansion_singleton) =>
              LET s == Unwrap(Expanded.expansion_analysis.expansion_singleton)
              IN  /\ Len(Values) = 1
                  /\ Values[1].is_null = s.is_null
                  /\ Values[1].ion_type = s.ion_type
                  /\ Values[1].num_annotations = s.num_annotations
        /\ Expanded.name \in {Some("set_symbols"), Some("add_symbols"),
                              Some("set_macros"), Some("add_macros")} =>
              /\ IsSome(Expanded.expansion_analysis.expansion_singleton)
              /\ Values = << Value(FALSE, "SExp", 1) >>

\* add_macros has been expanded with two arguments, one of them null and
\* annotated, for its macro_definitions parameter.
C15_Witness ==
    /\ Called("expand")
    /\ Expanded.name = Some("add_macros")
    /\ Len(Binding) = 1
    /\ Len(Binding[1]) = MaxArgs
    /\ \E i \in 1..Len(Binding[1]) : Binding[1][i].is_null
    /\ Values = << Value(FALSE, "SExp", 1) >>

(* -------------------------------- C16 --------------------------------- *)

\* The name and the kind the claim gives each system address, 0 first.
C16_Expected ==
    << [name |-> "none", kind |-> "None"],
       [name |-> "values", kind |-> "Template"],
       [name |-> "make_string", kind |-> "MakeString"],
       [name |-> "make_sexp", kind |-> "MakeSExp"],
       [name |-> "annotate", kind |-> "Annotate"],
       [name |-> "set_symbols", kind |-> "Template"],
       [name |-> "add_symbols", kind |-> "Template"],
       [name |-> "set_macros", kind |-> "Template"],
       [name |-> "add_macros", kind |-> "Template"] >>

\* C16 (kinds and order of the system macros): in the table
\* with_system_macros() returns, addresses 0..8 hold, in this order, none,
\* values, make_string, make_sexp, annotate, set_symbols, add_symbols,
\* set_macros and add_macros; all nine are named; none, make_string,
\* make_sexp and annotate have the primitive kinds None, MakeString,
\* MakeSExp and Annotate, which carry no body, and the other five have kind
\* Template, which carries one; and each name resolves to its address.
C16_KindsAndOrder ==
    Called("with_system_macros") =>
        /\ len(Post) = Len(C16_Expected)
        /\ \A a \in 0..(Len(C16_Expected) - 1) :
              LET found == macro_at_address(Post, a)
                  m == Unwrap(found).reference.macro
              IN  /\ IsSome(found)
                  /\ m.name = Some(C16_Expected[a + 1].name)
                  /\ m.kind.tag = C16_Expected[a + 1].kind
                  /\ IsSome(m.kind.body) <=> m.kind.tag = "Template"
                  /\ address_for_name(Post, C16_Expected[a + 1].name) = Some(a)

\* A table fresh from with_system_macros() whose last address holds the
\* template add_macros and whose first holds the primitive none.
C16_Witness ==
    /\ Called("with_system_macros")
    /\ Unwrap(macro_at_address(Post, 8)).reference.macro.name
          = Some("add_macros")
    /\ Unwrap(macro_at_address(Post, 8)).reference.macro.kind.tag = "Template"
    /\ Unwrap(macro_at_address(Post, 0)).reference.macro.kind
          = PrimitiveKind("None")

(* -------------------------------- C17 --------------------------------- *)

\* What writing the texts in order puts on the output: each text and the
\* separator after it.
RECURSIVE ValuesOutput(_, _)
ValuesOutput(texts, separator) ==
    IF texts = << >>
    THEN ""
    ELSE Head(texts) \o separator \o ValuesOutput(Tail(texts), separator)

\* C17 (version marker first): once a writer is constructed with a text
\* configuration, the output holds, after what it held before, the marker
\* $ion_1_1, the separator of top-level values of the configuration the
\* writer was built with (Compact, Lines or Pretty), and then the values
\* written, in the order they were written; and no value is written before
\* a writer is constructed, so the marker precedes every value.
C17_MarkerFirst ==
    /\ writer.state \in {"ready", "closed"} =>
          /\ writer.whitespace_config
                \in {Some(COMPACT_WHITESPACE_CONFIG),
                     Some(LINES_WHITESPACE_CONFIG),
                     Some(PRETTY_WHITESPACE_CONFIG)}
          /\ LET separator == Unwrap(writer.whitespace_config)
                                  .space_between_top_level_values
             IN  \E prior \in PriorOutputs :
                     output = prior \o IVM_TEXT \o separator
                                    \o ValuesOutput(written, separator)
    /\ writer.state \notin {"ready", "closed"} => written = << >>

\* A writer built with the Lines configuration over an output that held
\* something has written two different values and was closed.
C17_Witness ==
    /\ writer.state = "closed"
    /\ writer.whitespace_config = Some(LINES_WHITESPACE_CONFIG)
    /\ Len(written) = MaxWrites
    /\ written[1] # written[MaxWrites]
    /\ output = "prior" \o IVM_TEXT \o "\n"
                       \o written[1] \o "\n" \o written[MaxWrites] \o "\n"

(* -------------------------------- C18 --------------------------------- *)

\* C18 (order of an import): a step of append_all_macros_from(other) that
\* returns Ok makes self longer by the length of other and places the macro
\* at address i of other at address old_len(self) + i of self, for every
\* i < len(other), as the same allocation (the same Rc, hence the same
\* definition); and it leaves other with the length, address list and name
\* index it had.
C18_ImportOrder ==
    [][ (/\ last'.op = "append_all_macros_from"
         /\ IsOk(Unwrap(last'.result)))
        => LET self0 == Unwrap(tables[last'.self])
               self1 == Unwrap(tables'[last'.self])
               other0 == Unwrap(tables[last'.other])
               other1 == Unwrap(tables'[last'.other])
           IN  /\ len(self1) = len(self0) + len(other0)
               /\ \A i \in 0..(len(other0) - 1) :
                     /\ macro_at_address(self1, len(self0) + i)
                          = Some(MacroRef(len(self0) + i,
                                          other0.macros_by_address[i + 1]))
                     /\ Unwrap(macro_at_address(self1, len(self0) + i))
                            .reference.rc
                          = Unwrap(macro_at_address(other0, i)).reference.rc
               /\ len(other1) = len(other0)
               /\ other1.macros_by_address = other0.macros_by_address
               /\ other1.macros_by_name = other0.macros_by_name
      ]_vars

\* A successful import of several different macros into a table that was
\* not empty, so that each of them moved to a larger address.
C18_Witness ==
    /\ Called("append_all_macros_from") /\ IsOk(Result)
    /\ len(Pre) >= 1
    /\ len(Other) >= 2
    /\ len(Post) = len(Pre) + len(Other)
    /\ macro_at_address(Post, len(Pre)) # macro_at_address(Post, len(Pre) + 1)
    /\ Unwrap(macro_at_address(Post, len(Pre))).reference
          = Unwrap(macro_at_address(Other, 0)).reference

(* -------------------------------- C19 --------------------------------- *)

\* The flat indexes of the Variable expressions of a body.
VariablesOf(exprs) ==
    {i \in 0..(Len(exprs) - 1) : exprs[i + 1].kind = "Variable"}

\* C19 (variables are leaves): in the body of every system template of the
\* table with_system_macros() returns, each Variable expression at flat
\* index i has range i..i+1, so it has no children, and refers to a
\* parameter index smaller than the number of parameters of the signature
\* of its macro.
C19_VariableLeaves ==
    Called("with_system_macros") =>
        \A m \in MacrosOf(Post) :
            m.kind.tag = "Template" =>
                \A i \in VariablesOf(Expressions(m)) :
                    LET expr == Expressions(m)[i + 1]
                    IN  /\ expr.range = ExprRange(i, i + 1)
                        /\ ChildrenFrom(Expressions(m), i + 1, expr.range.end)
                              = << >>
                        /\ IsSome(expr.parameter_index)
                        /\ Unwrap(expr.parameter_index) >= 0
                        /\ Unwrap(expr.parameter_index) < Len(m.signature)

\* A table fresh from with_system_macros() with five templates that each
\* hold a variable, one of them at the very start of its body and one
\* inside a list inside an s-expression.
C19_Witness ==
    /\ Called("with_system_macros")
    /\ Cardinality({m \in MacrosOf(Post) :
                       /\ m.kind.tag = "Template"
                       /\ VariablesOf(Expressions(m)) # {}}) = 5
    /\ \E m \in MacrosOf(Post) :
          m.kind.tag = "Template" /\ 0 \in VariablesOf(Expressions(m))
    /\ \E m \in MacrosOf(Post) :
          m.kind.tag = "Template" /\ 4 \in VariablesOf(Expressions(m))

(* -------------------------------- C20 --------------------------------- *)

\* The bytes of a u8, and the four the opcode types single out.
Bytes == 0..(OPCODE_COUNT - 1)

\* The opcode type the claim gives a byte: IonVersionMarker for 0xE0,
\* NullNull for 0xEA, Nop for 0xEC and 0xED, Boolean for every other byte.
C20_OpcodeType(b) ==
    CASE b = 224 -> "IonVersionMarker"
      [] b = 234 -> "NullNull"
      [] b \in {236, 237} -> "Nop"
      [] OTHER -> "Boolean"

\* What the two readings below share: the table is filled when the static
\* has its value, entry b is Opcode::from_byte(b), its length code is
\* b & 0x0F and its opcode type the one the claim gives b; and an entry is
\* DEFAULT_HEADER only if from_byte yields DEFAULT_HEADER.
C20_Entries ==
    IsSome(ION_1_1_OPCODES) =>
        /\ DOMAIN Unwrap(ION_1_1_OPCODES) = Bytes
        /\ \A b \in Bytes :
              LET entry == Unwrap(ION_1_1_OPCODES)[b]
              IN  /\ entry = from_byte(b)
                  /\ entry.length_code = b % 16
                  /\ entry.opcode_type = C20_OpcodeType(b)
                  /\ entry = DEFAULT_HEADER => from_byte(b) = DEFAULT_HEADER

\* C20 as stated: the Ion types Some(Null), None, None and Some(Bool) go,
\* respectively, with IonVersionMarker, NullNull, Nop and Boolean.
C20_AsStated ==
    /\ C20_Entries
    /\ IsSome(ION_1_1_OPCODES) =>
          \A b \in Bytes :
              Unwrap(ION_1_1_OPCODES)[b].ion_type
                = CASE C20_OpcodeType(b) = "IonVersionMarker" -> Some("Null")
                    [] C20_OpcodeType(b) = "NullNull" -> None
                    [] C20_OpcodeType(b) = "Nop" -> None
                    [] C20_OpcodeType(b) = "Boolean" -> Some("Bool")

\* C20 (amended): the static table ION_1_1_OPCODES maps every byte b in
\* 0..=255 to exactly Opcode::from_byte(b): entry b has length_code
\* b & 0x0F, opcode_type IonVersionMarker for 0xE0, NullNull for 0xEA, Nop
\* for 0xEC and 0xED and Boolean for every other byte, with ion_type None
\* for IonVersionMarker, Some(Null) for NullNull, None for Nop and
\* Some(Bool) for Boolean; no entry retains the DEFAULT_HEADER placeholder
\* unless from_byte yields the same value.
C20_OpcodeTable ==
    /\ C20_Entries
    /\ IsSome(ION_1_1_OPCODES) =>
          \A b \in Bytes :
              Unwrap(ION_1_1_OPCODES)[b].ion_type
                = CASE C20_OpcodeType(b) = "IonVersionMarker" -> None
                    [] C20_OpcodeType(b) = "NullNull" -> Some("Null")
                    [] C20_OpcodeType(b) = "Nop" -> None
                    [] C20_OpcodeType(b) = "Boolean" -> Some("Bool")

\* The table is filled: its last entry is a Boolean of length code 15, the
\* entries of 0xE0 and 0xEA are the version marker and the null, and no
\* entry is the placeholder.
C20_Witness ==
    /\ IsSome(ION_1_1_OPCODES)
    /\ index = OPCODE_COUNT
    /\ Unwrap(ION_1_1_OPCODES)[255] = Opcode("Boolean", Some("Bool"), 15)
    /\ Unwrap(ION_1_1_OPCODES)[224] = Opcode("IonVersionMarker", None, 0)
    /\ Unwrap(ION_1_1_OPCODES)[234] = Opcode("NullNull", Some("Null"), 10)
    /\ \A b \in Bytes : Unwrap(ION_1_1_OPCODES)[b] # DEFAULT_HEADER

(* -------------------------------- C21 --------------------------------- *)

\* The bytes an arm of the first match of from_byte names (0xE0, 0xEA,
\* 0xEC, 0xED); every other byte falls to its wildcard arm.
C21_Recognized == {224, 234, 236, 237}

\* Whether what a call returned is an error rather than a value.
ReturnsError(result) ==
    "tag" \in DOMAIN result /\ result.tag = "Err"

\* C21 (errors of from_byte): for a byte whose opcode from_byte does not
\* recognize, from_byte returns an error rather than an Opcode; stated of
\* every entry that init_opcode_cache has filled with from_byte(byte).
C21_ErrorOnUnrecognized ==
    \A byte \in Bytes :
        (byte < index /\ byte \notin C21_Recognized) =>
            ReturnsError(jump_table[byte])

(* -------------------------------- C22 --------------------------------- *)

\* The bytes whose opcode has no Ion type: 0xE0, 0xEC and 0xED.
C22_Untyped == {224, 236, 237}

\* C22 (from_byte is total): from_byte reaches its panic arm for none of
\* the 256 bytes, so init_opcode_cache never panics, its loop ends with all
\* 256 entries filled and nothing but the return left to do; and to_header
\* of an opcode is None exactly for the bytes 0xE0, 0xEC and 0xED, and
\* otherwise a Header with the ion_type, the opcode_type and the
\* length_code of the opcode.
C22_Total ==
    /\ \A byte \in Bytes : ~from_byte_panics(byte)
    /\ IsNone(panic)
    /\ index \in 0..OPCODE_COUNT
    /\ IsSome(ION_1_1_OPCODES) =>
          /\ index = OPCODE_COUNT
          /\ \A byte \in Bytes :
                Unwrap(ION_1_1_OPCODES)[byte] = from_byte(byte)
    /\ \A byte \in Bytes :
          LET opcode == from_byte(byte)
          IN  /\ IsNone(to_header(opcode)) <=> byte \in C22_Untyped
              /\ IsNone(to_header(opcode)) <=> IsNone(opcode.ion_type)
              /\ IsSome(to_header(opcode)) =>
                    /\ Some(Unwrap(to_header(opcode)).ion_type)
                          = opcode.ion_type
                    /\ Unwrap(to_header(opcode)).ion_type_code
                          = opcode.opcode_type
                    /\ Unwrap(to_header(opcode)).length_code
                          = opcode.length_code
    /\ IsSome(decoded) =>
          /\ Unwrap(decoded).opcode = from_byte(Unwrap(decoded).byte)
          /\ Unwrap(decoded).header = to_header(Unwrap(decoded).opcode)

\* The table is built and a reader has decoded the byte 0xEC, a Nop, for
\* which there is no header, while the null 0xEA has one.
C22_Witness ==
    /\ IsSome(ION_1_1_OPCODES)
    /\ IsNone(panic)
    /\ IsSome(decoded)
    /\ Unwrap(decoded).byte = 236
    /\ Unwrap(decoded).opcode = Opcode("Nop", None, 12)
    /\ Unwrap(decoded).header = None
    /\ to_header(Unwrap(ION_1_1_OPCODES)[234])
          = Some(Header("Null", "NullNull", 10))

(* -------------------------------- C23 --------------------------------- *)

\* The name index of a table is exactly the pairs (name of the macro at
\* address a, a) of its named macros.
NameIndexConsistent(self) ==
    /\ \A n \in DOMAIN self.macros_by_name :
          /\ self.macros_by_name[n] \in 0..(len(self) - 1)
          /\ self.macros_by_address[self.macros_by_name[n] + 1].macro.name
                = Some(n)
    /\ \A a \in 0..(len(self) - 1) :
          LET name == self.macros_by_address[a + 1].macro.name
          IN  IsSome(name) =>
                  /\ Unwrap(name) \in DOMAIN self.macros_by_name
                  /\ self.macros_by_name[Unwrap(name)] = a
    /\ \A a, b \in 0..(len(self) - 1) :
          (/\ a # b
           /\ IsSome(self.macros_by_address[a + 1].macro.name))
          => self.macros_by_address[a + 1].macro.name
                # self.macros_by_address[b + 1].macro.name

\* C23 (name-index consistency): every table, however it was reached from
\* empty() or the system table by add_macro and append_all_macros_from
\* calls that succeeded or failed (and by clone), and the thread's system
\* table, has a name index that is exactly the pairs (name of the macro at
\* address a, a) of its named macros: every entry points to an address of
\* the table whose macro has that name, every named macro has an entry
\* that points to its address, and no two addresses hold macros of one
\* name.
C23_NameIndexConsistency ==
    \A s \in Storage : IsSome(tables[s]) => NameIndexConsistent(Table(s))

\* A failed append_all_macros_from has left entries behind in a table that
\* holds named and anonymous macros.
C23_Witness ==
    /\ Called("append_all_macros_from") /\ IsErr(Result)
    /\ len(Post) > len(Pre)
    /\ DOMAIN Post.macros_by_name # DOMAIN Pre.macros_by_name
    /\ \E a \in 0..(len(Post) - 1) :
          IsNone(Post.macros_by_address[a + 1].macro.name)
    /\ NUM_SYSTEM_MACROS \in {Post.macros_by_name[n] + 1 :
                                 n \in DOMAIN Post.macros_by_name}

(* -------------------------------- C24 --------------------------------- *)

\* The kinds of macro that have no template body.
C24_PrimitiveKinds == {"None", "ExprGroup", "MakeString", "MakeSExp", "Annotate"}

\* The addresses of self that add_macro has created: those after the system
\* macros of a bootstrapped table, and all of them in a table that began
\* empty.
C24_Created(self) ==
    {a \in 0..(len(self) - 1) :
        Bootstrapped(self) => a >= NUM_SYSTEM_MACROS}

\* The MacroRef that the require_template call in `last` was made on.
C24_Required ==
    Unwrap(macro_at_address(Pre, Unwrap(Unwrap(last.id).address)))

\* C24 (add_macro creates templates): the macro a successful add_macro
\* appends has the kind Template holding the template's body, and
\* require_template on the MacroRef of every address add_macro has created
\* returns a template reference to that body without reaching the
\* unreachable!(); require_template reaches it exactly when the macro's kind
\* is one of None, ExprGroup, MakeString, MakeSExp and Annotate, which in a
\* table that begins with the system macros are addresses 0, 2, 3 and 4.
C24_AddMacroCreatesTemplates ==
    /\ (Called("add_macro") /\ IsOk(Result)) =>
          LET ref == Unwrap(macro_at_address(Post, Unwrap(Result.value)))
          IN  /\ ref.reference.macro.kind = TemplateKind(Template.body)
              /\ require_template(ref)
                    = Returns(TemplateMacroRef(ref.reference, Template.body))
    /\ \A t \in Live : \A a \in C24_Created(Table(t)) :
          LET ref == Unwrap(macro_at_address(Table(t), a))
          IN  /\ ref.reference.macro.kind.tag = "Template"
              /\ IsNone(require_template(ref).panic)
              /\ Unwrap(require_template(ref).value).reference = ref.reference
              /\ Unwrap(require_template(ref).value).body
                    = Unwrap(ref.reference.macro.kind.body)
    /\ Called("require_template") =>
          /\ IsSome(Result.panic)
                <=> C24_Required.reference.macro.kind.tag \in C24_PrimitiveKinds
          /\ IsSome(Result.panic) <=> IsNone(Result.value)
          /\ C24_Required.address \in C24_Created(Pre) => IsNone(Result.panic)
          /\ Bootstrapped(Pre) =>
                (IsSome(Result.panic) <=> C24_Required.address \in {0, 2, 3, 4})

\* A caller has required the template of a macro that add_macro appended
\* after the system macros, in a table whose address 0 would have reached
\* the unreachable!().
C24_Witness ==
    /\ Called("require_template")
    /\ Bootstrapped(Pre)
    /\ C24_Required.address >= NUM_SYSTEM_MACROS
    /\ IsNone(Result.panic)
    /\ Unwrap(Result.value).body \in {template.body : template \in Templates}
    /\ IsSome(require_template(Unwrap(macro_at_address(Pre, 0))).panic)

(* -------------------------------- C25 --------------------------------- *)

\* The system macros of a table that begins with them.
C25_SystemMacros(self) ==
    {self.macros_by_address[a + 1].macro : a \in 0..(NUM_SYSTEM_MACROS - 1)}

\* The body of template macro m starts with an element that spans the whole
\* body and is what the singleton of m describes.
C25_SingletonMatchesBody(m) ==
    LET body == Unwrap(m.kind.body)
        first == body.expressions[1]
        singleton == Unwrap(m.expansion_analysis.expansion_singleton)
    IN  /\ first.kind = "Element"
        /\ first.range = ExprRange(0, Len(body.expressions))
        /\ first.value = "SExp"
        /\ first.value = singleton.ion_type
        /\ first.annotations_range = Some(ExprRange(0, 1))
        /\ Len(body.annotations_storage) = 1
        /\ Unwrap(first.annotations_range).end <= Len(body.annotations_storage)
        /\ Unwrap(first.annotations_range).end
              - Unwrap(first.annotations_range).start
              = singleton.num_annotations

\* C25 (singletons of the system macros): for every macro among the system
\* macros of a bootstrapped table, expansion_singleton is Some only if
\* must_produce_exactly_one_value is true; and the body of every system
\* template macro that has a singleton starts with an Element spanning the
\* whole body, whose value kind SExp is the singleton's ion_type and whose
\* annotation range 0..1, within the one-symbol annotations_storage, is as
\* long as the singleton's num_annotations.
C25_SystemSingletons ==
    \A s \in Storage :
        (IsSome(tables[s]) /\ Bootstrapped(Table(s))) =>
            \A m \in C25_SystemMacros(Table(s)) :
                /\ IsSome(m.expansion_analysis.expansion_singleton) =>
                      m.expansion_analysis.must_produce_exactly_one_value
                /\ (m.kind.tag = "Template"
                    /\ IsSome(m.expansion_analysis.expansion_singleton)) =>
                      C25_SingletonMatchesBody(m)

\* with_system_macros() has made a table in which four template macros and
\* some macro of another kind have a singleton, and the template macro
\* values has none.
C25_Witness ==
    /\ Called("with_system_macros")
    /\ Bootstrapped(Post)
    /\ Cardinality({m \in C25_SystemMacros(Post) :
            /\ m.kind.tag = "Template"
            /\ IsSome(m.expansion_analysis.expansion_singleton)}) = 4
    /\ \E m \in C25_SystemMacros(Post) :
            /\ m.kind.tag # "Template"
            /\ IsSome(m.expansion_analysis.expansion_singleton)
    /\ \E m \in C25_SystemMacros(Post) :
            /\ m.kind.tag = "Template"
            /\ IsNone(m.expansion_analysis.expansion_singleton)

====
